---- MODULE Spec2Model ----
(***************************************************************************)
(* Model of survivalvolume: the table extraction of parse.py and the       *)
(* survival transform and interval estimation of plot.py.                  *)
(*                                                                         *)
(* All functions of the package are synchronous transformations of pandas  *)
(* objects.  Each is an operator computed the way its code computes it;    *)
(* every specification draws the arguments of a call from a bounded set    *)
(* (Init) and has one action per function, which stores what the call      *)
(* returned (or the exception it raised) in ret.                           *)
(***************************************************************************)
EXTENDS Integers, Sequences, FiniteSets, TLC

VARIABLES
    pc,     \* "start" before the call, "done" after it
    op,     \* the function that was called ("none" before the call)
    arg,    \* the arguments of the call
    ret     \* what the call returned, or Raised(..)

vars == <<pc, op, arg, ret>>

-----------------------------------------------------------------------------
(* Cells, labels and data frames                                           *)

\* A cell is a missing value, a number or a text.
NaN == <<"nan">>
Num(n) == <<"num", n>>
Str(s) == <<"str", s>>

IsNull(c) == c = NaN
IsNum(c) == c[1] = "num"

\* The outcome of a call that may raise: the value returned, or the exception.
Returned(v) == [ok |-> TRUE, value |-> v]
Raised(e) == [ok |-> FALSE, value |-> e]
IsRaised(r) == ~r.ok

\* A pandas DataFrame: row labels, column labels, and the cells row by row.
DataFrame(idx, cols, vals) == [index |-> idx, columns |-> cols, values |-> vals]

\* The elements of s at the positions K, in order.
KeepAt(s, K) ==
    LET F[i \in 0..Len(s)] ==
            IF i = 0 THEN <<>>
            ELSE IF i \in K THEN Append(F[i-1], s[i]) ELSE F[i-1]
    IN F[Len(s)]

Range(s) == {s[i] : i \in DOMAIN s}

\* The rows of df at the positions K (all columns).
TakeRows(df, K) ==
    DataFrame(KeepAt(df.index, K), df.columns, KeepAt(df.values, K))

\* The columns of df at the positions K (all rows).
TakeCols(df, K) ==
    DataFrame(df.index, KeepAt(df.columns, K),
              [i \in DOMAIN df.values |-> KeepAt(df.values[i], K)])

RowAllNull(df, i) == \A j \in DOMAIN df.columns : IsNull(df.values[i][j])
ColAllNull(df, j) == \A i \in DOMAIN df.index : IsNull(df.values[i][j])

\* The elements of a finite set of integers in ascending order.
RECURSIVE Sorted(_)
Sorted(S) ==
    IF S = {} THEN <<>>
    ELSE LET m == CHOOSE x \in S : \A y \in S : x <= y
         IN <<m>> \o Sorted(S \ {m})

RECURSIVE SumSeq(_)
SumSeq(s) == IF s = <<>> THEN 0 ELSE Head(s) + SumSeq(Tail(s))

\* All sequences over S of length 0..n.
SeqsUpTo(S, n) == UNION {[1..k -> S] : k \in 0..n}

-----------------------------------------------------------------------------
(* parse.py: split_on_nans                                                 *)

\* data.loc[first:last] on a frame with an ascending integer index: the rows
\* whose label lies in first..last, both ends included.
LocSlice(data, first, last) ==
    TakeRows(data, {i \in DOMAIN data.index :
                        first <= data.index[i] /\ data.index[i] <= last})

\* data[data.isnull().all(axis=1) == True].index
NullLines(data) ==
    {data.index[i] : i \in {k \in DOMAIN data.index : RowAllNull(data, k)}}

\* Slicing that leaves the separator row out of the block (not the code's).
SplitSliceExclusive(data, start, line_index) ==
    LocSlice(data, start, line_index - 1)

\* data_subset = data.loc[start:line_index]
SplitSlice(data, start, line_index) ==
    LocSlice(data, start, line_index)

\* The loop of split_on_nans over the sorted labels of the all-null rows.
RECURSIVE SplitLoop(_, _, _, _)
SplitLoop(data, lines, start, result) ==
    IF lines = <<>> THEN result
    ELSE LET line_index == Head(lines)
         IN SplitLoop(data, Tail(lines), line_index + 1,
                      Append(result, SplitSlice(data, start, line_index)))

split_on_nans(data) == SplitLoop(data, Sorted(NullLines(data)), 0, <<>>)

-----------------------------------------------------------------------------
(* Specification of the block splitter                                     *)

MaxRows == 4        \* rows of a raw grid
LabelOffset == 2    \* first row label of a grid that is a slice of a sheet

SplitRowKinds ==
    { <<NaN, NaN>>, <<NaN, Str("A")>>, <<Num(1), NaN>> }

\* A raw grid: rows labelled consecutively from `first`, columns 0 and 1.
RawGrid(first, rows) ==
    DataFrame([i \in 1..Len(rows) |-> first + i - 1], <<0, 1>>, rows)

SplitInputs ==
    { RawGrid(f, rows) : f \in {0, LabelOffset},
                         rows \in SeqsUpTo(SplitRowKinds, MaxRows) }

InitSplit ==
    /\ pc = "start"
    /\ op = "none"
    /\ arg \in SplitInputs
    /\ ret = <<>>

CallSplitOnNans ==
    /\ pc = "start"
    /\ pc' = "done"
    /\ op' = "split_on_nans"
    /\ ret' = split_on_nans(arg)
    /\ UNCHANGED arg

NextSplit == CallSplitOnNans

SpecSplit == InitSplit /\ [][NextSplit]_vars

-----------------------------------------------------------------------------
(* Claims about split_on_nans                                              *)

SplitDone == pc = "done" /\ op = "split_on_nans"

\* The row labels of all returned blocks, block after block.
RECURSIVE BlockLabels(_)
BlockLabels(blocks) ==
    IF blocks = <<>> THEN <<>>
    ELSE Head(blocks).index \o BlockLabels(Tail(blocks))

\* The all-null rows of the grid that are in no returned block.
SeparatorsConsumed(data, blocks) ==
    NullLines(data) \ Range(BlockLabels(blocks))

\* The grid has two all-null rows next to each other.
HasNullRun(data) ==
    \E i \in DOMAIN data.index :
        i + 1 \in DOMAIN data.index /\ RowAllNull(data, i) /\ RowAllNull(data, i + 1)

LastRowHasContent(data) ==
    data.index # <<>> /\ ~RowAllNull(data, Len(data.index))

\* The rows after the last all-null row of the grid.
TrailingContent(data) ==
    LocSlice(data,
             IF NullLines(data) = {} THEN data.index[1]
             ELSE 1 + CHOOSE m \in NullLines(data) : \A l \in NullLines(data) : l <= m,
             data.index[Len(data.index)])

\* C1: the blocks returned by split_on_nans are in original row order and
\* pairwise disjoint, each holds the grid's rows unchanged, and the sum of their
\* lengths plus the number of separator rows consumed (all-null rows that are in
\* no block) is the number of rows of the grid: no row is lost or duplicated.
C1_NoRowLostOrDuplicated ==
    SplitDone =>
        LET labels == BlockLabels(ret) IN
        /\ \A i, j \in DOMAIN labels : i < j => labels[i] < labels[j]
        /\ \A k \in DOMAIN ret :
               ret[k] = TakeRows(arg, {i \in DOMAIN arg.index :
                                           arg.index[i] \in Range(ret[k].index)})
        /\ SumSeq([k \in DOMAIN ret |-> Len(ret[k].index)])
               + Cardinality(SeparatorsConsumed(arg, ret)) = Len(arg.index)

\* C2: when the last rows of the grid are content that no all-null row
\* follows, split_on_nans returns that trailing content as its last block.
C2_TrailingContentIsLastBlock ==
    (SplitDone /\ LastRowHasContent(arg)) =>
        /\ ret # <<>>
        /\ ret[Len(ret)] = TrailingContent(arg)

\* C3 as stated: in a grid with a run of two or more all-null rows no
\* returned block is made only of separator rows.
C3_RunIsOneSplitPoint ==
    (SplitDone /\ HasNullRun(arg)) =>
        \A k \in DOMAIN ret : \E i \in DOMAIN ret[k].index : ~RowAllNull(ret[k], i)

\* C3 (amended): split_on_nans returns one block per all-null row, in row
\* order; the block ends with that row and holds no other all-null row, so
\* every row of a run after the first yields a block made only of that
\* separator row and the number of blocks is the number of all-null rows.
C3_OneBlockPerNullRow ==
    SplitDone =>
        LET lines == Sorted(NullLines(arg)) IN
        /\ Len(ret) = Len(lines)
        /\ \A k \in DOMAIN ret :
             LET n == Len(ret[k].index) IN
             /\ n >= 1
             /\ ret[k].index[n] = lines[k]
             /\ RowAllNull(ret[k], n)
             /\ \A i \in 1..(n-1) : ~RowAllNull(ret[k], i)
             /\ (k > 1 /\ lines[k-1] + 1 = lines[k]) => n = 1

C3_Witness ==
    /\ SplitDone
    /\ HasNullRun(arg)
    /\ \E k \in DOMAIN ret : Len(ret[k].index) = 1 /\ RowAllNull(ret[k], 1)
    /\ \E k \in DOMAIN ret : Len(ret[k].index) > 1

-----------------------------------------------------------------------------
(* parse.py: clean_tv_table                                                *)

\* df.dropna(axis=1, how='all')
DropNullCols(df) == TakeCols(df, {j \in DOMAIN df.columns : ~ColAllNull(df, j)})

\* df.dropna(axis=0, how='all')
DropNullRows(df) == TakeRows(df, {i \in DOMAIN df.index : ~RowAllNull(df, i)})

\* The positions of the columns of df labelled `label`.
ColsLabelled(df, label) == {j \in DOMAIN df.columns : df.columns[j] = label}

\* The cells of the column at position j, top to bottom.
ColumnAt(df, j) == [i \in DOMAIN df.index |-> df.values[i][j]]

\* A drop that passes over a missing 'Mean' column (not the code's).
DropMeanIfPresent(t) ==
    Returned(TakeCols(t, DOMAIN t.columns \ ColsLabelled(t, Str("Mean"))))

\* A slice that keeps the header row among the data rows (not the code's).
BodySliceFromHeader(t) ==
    TakeCols(TakeRows(t, 2..Len(t.index)), 2..Len(t.columns))

\* tv_table.iloc[2:,1:]
BodySlice(t) ==
    TakeCols(TakeRows(t, 3..Len(t.index)), 2..Len(t.columns))

\* tv_table.drop('Mean', axis=1); KeyError when no column has the label.
DropMean(t) ==
    IF ColsLabelled(t, Str("Mean")) = {} THEN Raised("KeyError")
    ELSE Returned(TakeCols(t, DOMAIN t.columns \ ColsLabelled(t, Str("Mean"))))

clean_tv_table(dirty_tv_table) ==
    LET t1 == DropNullRows(DropNullCols(dirty_tv_table)) IN
    IF ColsLabelled(t1, 1) = {} THEN Raised("KeyError")       \* tv_table[1]
    ELSE IF Len(t1.index) < 2 THEN Raised("IndexError")       \* .iloc[0], .iloc[1]
    ELSE
      LET name == ColumnAt(t1, CHOOSE j \in ColsLabelled(t1, 1) : TRUE)[1]
          \* tv_table.columns = tv_table.iloc[1]
          t2 == DataFrame(t1.index, t1.values[2], t1.values)
          day == ColsLabelled(t2, Str("Day"))
      IN
      IF day = {} THEN Raised("KeyError")                     \* tv_table['Day']
      ELSE IF Cardinality(day) > 1 THEN Raised("ValueError")  \* index from a frame
      ELSE
        LET \* tv_table.index = tv_table['Day']
            t3 == DataFrame(ColumnAt(t2, CHOOSE j \in day : TRUE), t2.columns, t2.values)
            t4 == DropMean(BodySlice(t3))
        IN IF IsRaised(t4) THEN t4 ELSE Returned([name |-> name, table |-> t4.value])

-----------------------------------------------------------------------------
(* Specification of the wide-block cleaner                                 *)

MaxDays == 3          \* data rows of a block
MaxIndividuals == 2   \* individual columns of a block

Titles == {"Vehicle", "Treat"}
IndividualNames == <<"A", "B", "C", "D">>

\* The days of the data rows: the schedule of the fixture, and one that lists a
\* day twice.
DaySchedules == { <<1, 4, 8, 11, 15>>, <<1, 4, 4, 8, 11>> }

\* The measurement of individual c in data row r: an individual has values in
\* its first present[c] data rows and none later.
Measurement(present, r, c) == IF r <= present[c] THEN Num(10 * r + c) ELSE NaN

\* The Mean cell of data row r (empty when no individual has a value).
MeanCell(present, r) ==
    IF \E c \in DOMAIN present : r <= present[c] THEN Num(100 + r) ELSE NaN

\* The header of the time column: 'Day', or another word in a malformed block.
DayLabels == {"Day", "Date"}

\* The block of a group as it is cut out of a sheet: column 0 empty, the title
\* and the days in column 1 (headed day_label), then the individuals and, if
\* `summary`, the Mean column; rows labelled from `first`; `tail` all-null rows
\* below the table.
HeadedBlock(first, title, day_label, summary, days, present, tail) ==
    LET k == Len(present)
        width == IF summary THEN k + 3 ELSE k + 2
        blank == [j \in 1..width |-> NaN]
        titleRow == [blank EXCEPT ![2] = Str(title)]
        headerRow == <<NaN, Str(day_label)>>
                       \o [c \in 1..k |-> Str(IndividualNames[c])]
                       \o (IF summary THEN <<Str("Mean")>> ELSE <<>>)
        dataRow(r) == <<NaN, Num(days[r])>>
                        \o [c \in 1..k |-> Measurement(present, r, c)]
                        \o (IF summary THEN <<MeanCell(present, r)>> ELSE <<>>)
        rows == <<titleRow, headerRow>>
                  \o [r \in 1..Len(days) |-> dataRow(r)]
                  \o [r \in 1..tail |-> blank]
    IN DataFrame([i \in 1..Len(rows) |-> first + i - 1],
                 [j \in 1..width |-> j - 1], rows)

\* The well-formed block: header 'Day', individuals, 'Mean'.
WideBlock(first, title, days, present, tail) ==
    HeadedBlock(first, title, "Day", TRUE, days, present, tail)

CleanInputs ==
    { [ dirty_tv_table |-> HeadedBlock(f, title, day_label, summary,
                                       SubSeq(sched, 1, n), present, tail),
        title |-> title, day_label |-> day_label, summary |-> summary,
        days |-> SubSeq(sched, 1, n), present |-> present ] :
        f \in {0, LabelOffset}, title \in Titles, day_label \in DayLabels,
        summary \in BOOLEAN, sched \in DaySchedules,
        n \in 0..MaxDays, tail \in 0..1,
        present \in UNION {[1..k -> 0..MaxDays] : k \in 0..MaxIndividuals} }

InitClean ==
    /\ pc = "start"
    /\ op = "none"
    /\ arg \in {a \in CleanInputs : \A c \in DOMAIN a.present : a.present[c] <= Len(a.days)}
    /\ ret = <<>>

CallCleanTvTable ==
    /\ pc = "start"
    /\ pc' = "done"
    /\ op' = "clean_tv_table"
    /\ ret' = clean_tv_table(arg.dirty_tv_table)
    /\ UNCHANGED arg

NextClean == CallCleanTvTable

SpecClean == InitClean /\ [][NextClean]_vars

-----------------------------------------------------------------------------
(* Claims about clean_tv_table                                             *)

CleanDone == pc = "done" /\ op = "clean_tv_table"

\* The block cleaned has the header row 'Day', individuals, 'Mean'.
WellFormed(a) == a.day_label = "Day" /\ a.summary

\* C4: for a block made of a title row, a header row ('Day', the individuals,
\* 'Mean') and data rows, clean_tv_table returns the title as name and a table
\* indexed by the Day values, whose columns are exactly the individuals in header
\* order, whose cells are the source cells, and which has no Mean column.
C4_CleanRoundTrip ==
    (CleanDone /\ WellFormed(arg)) =>
        /\ ~IsRaised(ret)
        /\ ret.value.name = Str(arg.title)
        /\ ret.value.table.index = [r \in DOMAIN arg.days |-> Num(arg.days[r])]
        /\ ret.value.table.columns = [c \in DOMAIN arg.present |-> Str(IndividualNames[c])]
        /\ ret.value.table.values =
               [r \in DOMAIN arg.days |->
                   [c \in DOMAIN arg.present |-> Measurement(arg.present, r, c)]]
        /\ Str("Mean") \notin Range(ret.value.table.columns)

C4_Witness ==
    /\ CleanDone
    /\ ~IsRaised(ret)
    /\ Len(ret.value.table.index) = MaxDays
    /\ Len(ret.value.table.columns) = MaxIndividuals
    /\ \E r \in DOMAIN ret.value.table.values : NaN \in Range(ret.value.table.values[r])
    /\ \E r \in DOMAIN ret.value.table.values : NaN \notin Range(ret.value.table.values[r])

-----------------------------------------------------------------------------
(* parse.py: studylog_prism_df_to_tv_tables                                *)

StartMarker == Str("Tumor Volume (All Animals)")
EndMarker == Str("Scatterplot information for Prism")

\* df.loc[df[0] == marker].index: the labels of the rows whose cell in the
\* column labelled 0 is the marker, top to bottom.
MarkerLines(df, marker) ==
    LET c0 == CHOOSE j \in ColsLabelled(df, 0) : TRUE
    IN KeepAt(df.index, {i \in DOMAIN df.index : df.values[i][c0] = marker})

\* df[a:b]: the rows at the (0-based) positions a .. b-1.
PosSlice(df, a, b) == TakeRows(df, {i \in DOMAIN df.index : a <= i - 1 /\ i - 1 < b})

\* DataFrame.empty
Empty(df) == df.index = <<>> \/ df.columns = <<>>

\* dict(pairs): the table of the last pair carrying each name.
Dict(pairs) ==
    [n \in {pairs[i].name : i \in DOMAIN pairs} |->
        pairs[CHOOSE i \in DOMAIN pairs :
                 /\ pairs[i].name = n
                 /\ \A j \in DOMAIN pairs : pairs[j].name = n => j <= i].table]

\* A guard that also lets blocks of exactly 3 rows through (not the code's).
OverTwoRows(x) == Len(x.index) >= 3

\* len(x.index) > 3
OverThreeRows(x) == Len(x.index) > 3

\* The loop over the blocks: the tables appended so far, or the exception of
\* the first block whose cleaning raises.
RECURSIVE PrismLoop(_, _)
PrismLoop(blocks, tv_tables) ==
    IF blocks = <<>> THEN Returned(tv_tables)
    ELSE LET x == Head(blocks) IN
         IF OverThreeRows(x)
         THEN LET cleaned == clean_tv_table(x) IN
              IF IsRaised(cleaned) THEN cleaned
              ELSE IF ~Empty(cleaned.value.table)
                   THEN PrismLoop(Tail(blocks), Append(tv_tables, cleaned.value))
                   ELSE PrismLoop(Tail(blocks), tv_tables)
         ELSE PrismLoop(Tail(blocks), tv_tables)

\* The first start marker taken as the start of the tables (not the code's).
FirstStart(starts) == starts[1]

\* df.loc[df[0] == 'Tumor Volume (All Animals)'].index[1]
SecondStart(starts) == starts[2]

studylog_prism_df_to_tv_tables(df) ==
    LET starts == MarkerLines(df, StartMarker)
        ends == MarkerLines(df, EndMarker)
    IN
    IF Len(starts) < 2 THEN Raised("IndexError")      \* .index[1]
    ELSE IF Len(ends) < 1 THEN Raised("IndexError")   \* .index[0]
    ELSE
      LET start_of_tv == SecondStart(starts)
          end_of_tv == ends[1]
          tv_tables == PrismLoop(split_on_nans(PosSlice(df, start_of_tv + 1, end_of_tv)),
                                 <<>>)
      IN IF IsRaised(tv_tables) THEN tv_tables ELSE Returned(Dict(tv_tables.value))

-----------------------------------------------------------------------------
(* Specification of the Prism sheet extraction                             *)

MaxSegments == 4     \* segments (tables, empty rows, text rows) between the markers

SheetWidth == MaxIndividuals + 3

PadRow(row) == row \o [j \in 1..(SheetWidth - Len(row)) |-> NaN]

\* The rows of a group's table in a sheet: title, header, data rows.
TableRows(title, days, present, summary) ==
    <<PadRow(<<NaN, Str(title)>>),
      PadRow(<<NaN, Str("Day")>>
               \o [c \in DOMAIN present |-> Str(IndividualNames[c])]
               \o (IF summary THEN <<Str("Mean")>> ELSE <<>>))>>
    \o [r \in DOMAIN days |->
          PadRow(<<NaN, Num(days[r])>>
                   \o [c \in DOMAIN present |-> Measurement(present, r, c)]
                   \o (IF summary THEN <<MeanCell(present, r)>> ELSE <<>>))]

\* The tables a sheet may hold.
SheetTables ==
    [ vehicle  |-> [title |-> "Vehicle", days |-> <<1, 4>>, present |-> <<2, 1>>, summary |-> TRUE],
      treat    |-> [title |-> "Treat",   days |-> <<1>>,    present |-> <<1>>,    summary |-> TRUE],
      vehicle2 |-> [title |-> "Vehicle", days |-> <<4, 8>>, present |-> <<1>>,    summary |-> TRUE],
      nobody   |-> [title |-> "Treat",   days |-> <<1, 4>>, present |-> <<>>,     summary |-> TRUE],
      nomean   |-> [title |-> "Treat",   days |-> <<1, 4>>, present |-> <<2>>,    summary |-> FALSE] ]

SegmentKinds == {"null", "text"} \cup DOMAIN SheetTables

SegmentRows(kind) ==
    CASE kind = "null"  -> <<PadRow(<<>>)>>
      [] kind = "text"  -> <<PadRow(<<Str("Test Data Sheet")>>)>>
      [] kind = "start" -> <<PadRow(<<StartMarker>>)>>
      [] kind = "end"   -> <<PadRow(<<EndMarker>>)>>
      [] OTHER -> LET t == SheetTables[kind]
                  IN TableRows(t.title, t.days, t.present, t.summary)

RECURSIVE Flatten(_)
Flatten(segments) ==
    IF segments = <<>> THEN <<>>
    ELSE SegmentRows(Head(segments)) \o Flatten(Tail(segments))

\* What surrounds the region between the markers.
SheetLayouts ==
    { [before |-> <<"start", "start">>, after |-> <<"end">>],
      [before |-> <<"text", "null", "start", "null", "null", "start">>,
       after |-> <<"end", "vehicle2", "null">>],
      [before |-> <<"start", "vehicle2", "null", "start">>, after |-> <<"end", "end">>],
      [before |-> <<"start">>, after |-> <<"end">>],
      [before |-> <<"start", "start">>, after |-> <<>>] }

\* A sheet read with header=None: rows and columns labelled 0, 1, 2, ...
Sheet(segments) ==
    LET rows == Flatten(segments)
    IN DataFrame([i \in 1..Len(rows) |-> i - 1], [j \in 1..SheetWidth |-> j - 1], rows)

\* A sheet of one of the layouts with up to MaxSegments segments between the
\* markers.
InitPrism ==
    /\ pc = "start"
    /\ op = "none"
    /\ \E l \in SheetLayouts, n \in 0..MaxSegments :
          \E region \in [1..n -> SegmentKinds] :
              arg = [ df |-> Sheet(l.before \o region \o l.after),
                      before |-> l.before, region |-> region, after |-> l.after ]
    /\ ret = <<>>

CallStudylogPrism ==
    /\ pc = "start"
    /\ pc' = "done"
    /\ op' = "studylog_prism_df_to_tv_tables"
    /\ ret' = studylog_prism_df_to_tv_tables(arg.df)
    /\ UNCHANGED arg

NextPrism == CallStudylogPrism

SpecPrism == InitPrism /\ [][NextPrism]_vars

-----------------------------------------------------------------------------
(* Claims about studylog_prism_df_to_tv_tables                             *)

PrismDone == pc = "done" /\ op = "studylog_prism_df_to_tv_tables"

\* Segment i of the region between the markers is a table block: a table with
\* its title, header ('Day', individuals, 'Mean') and data rows, with an empty
\* row or a marker row above it and below it.
IsTableBlock(a, i) ==
    /\ a.region[i] \in DOMAIN SheetTables
    /\ SheetTables[a.region[i]].summary
    /\ i > 1 => a.region[i-1] = "null"
    /\ i < Len(a.region) => a.region[i+1] = "null"

\* The Cleaned Table of a table of the sheet, written down from its days,
\* individuals and measurements.
ExpectedTable(t) ==
    DataFrame([r \in DOMAIN t.days |-> Num(t.days[r])],
              [c \in DOMAIN t.present |-> Str(IndividualNames[c])],
              [r \in DOMAIN t.days |->
                  [c \in DOMAIN t.present |-> Measurement(t.present, r, c)]])

\* C5: when studylog_prism_df_to_tv_tables returns a mapping, every table block
\* of more than 3 rows between the markers that cleans to a non-empty table is
\* in the mapping under its title, indexed by its days, with its individual
\* columns and without the Mean column (a later table of the same title may have
\* replaced it); no such table is silently missing.
C5_MappingIsComplete ==
    (PrismDone /\ ~IsRaised(ret)) =>
        \A i \in DOMAIN arg.region :
            LET t == SheetTables[arg.region[i]] IN
            (/\ IsTableBlock(arg, i)
             /\ 2 + Len(t.days) > 3
             /\ ~Empty(ExpectedTable(t)))
            => /\ Str(t.title) \in DOMAIN ret.value
               /\ \/ ret.value[Str(t.title)] = ExpectedTable(t)
                  \/ \E j \in DOMAIN arg.region :
                        /\ j > i
                        /\ arg.region[j] \in DOMAIN SheetTables
                        /\ SheetTables[arg.region[j]].title = t.title

-----------------------------------------------------------------------------
(* plot.py: get_survival_status, volume_to_survival                        *)

DefaultEndpoint == 700

\* The endpoint of a call: the keyword argument when it is given (<<e>>), the
\* default otherwise (<<>>).
EndpointOf(given) == IF given = <<>> THEN DefaultEndpoint ELSE given[1]

\* A pandas Series: the labels and the values.
Series(idx, vals) == [index |-> idx, values |-> vals]

\* tv_data[x]: the column labelled x as a series indexed like the frame.
Column(tv_data, x) ==
    Series(tv_data.index,
           ColumnAt(tv_data, CHOOSE j \in ColsLabelled(tv_data, x) : TRUE))

\* tv_series.dropna()
DropNa(sr) ==
    LET keep == {i \in DOMAIN sr.values : ~IsNull(sr.values[i])}
    IN Series(KeepAt(sr.index, keep), KeepAt(sr.values, keep))

\* A test that also counts a last value equal to the endpoint as below it
\* (not the code's).
LastBelowOrAt(sr, endpoint) == sr.values[Len(sr.values)][2] <= endpoint

\* tv_series.iloc[-1] < endpoint
LastBelow(sr, endpoint) == sr.values[Len(sr.values)][2] < endpoint

\* A value that is not a series, such as the number 1.
Scalar(v) == [scalar |-> v]

IsSeries(x) == "values" \in DOMAIN x

\* A lookup that takes a value without dropna for a series without values
\* (not the code's).
DropNaLenient(tv_series) ==
    IF IsSeries(tv_series) THEN Returned(DropNa(tv_series))
    ELSE Returned(Series(<<>>, <<>>))

\* tv_series.dropna() on whatever was passed: AttributeError for a value
\* that has no such method.
DropNaCall(tv_series) ==
    IF IsSeries(tv_series) THEN Returned(DropNa(tv_series))
    ELSE Raised("AttributeError")

\* The dropna call is outside the try block; what the try block catches it
\* prints and raises again.
get_survival_status(tv_series, endpoint) ==
    LET dropped == DropNaCall(tv_series) IN
    IF IsRaised(dropped) THEN dropped
    ELSE LET sr == dropped.value IN
         IF sr.values = <<>> THEN Raised("IndexError")     \* .iloc[-1] of nothing
         ELSE Returned([time |-> sr.index[Len(sr.index)],
                        observed |-> ~LastBelow(sr, endpoint)])

\* tv_data[x].any(): some value of the column is neither missing nor zero.
SeriesAny(sr) == \E i \in DOMAIN sr.values : ~IsNull(sr.values[i]) /\ sr.values[i][2] # 0

\* The frame built from the dict comprehension, transposed: one row (Time,
\* Observed) per selected column; naming the two columns of a frame built from
\* an empty dict raises ValueError (length mismatch).
volume_to_survival(tv_data, endpoint) ==
    LET chosen == {j \in DOMAIN tv_data.columns : SeriesAny(Column(tv_data, tv_data.columns[j]))}
        status(j) == get_survival_status(Column(tv_data, tv_data.columns[j]), endpoint).value
    IN
    IF chosen = {} THEN Raised("ValueError")
    ELSE Returned(DataFrame(KeepAt(tv_data.columns, chosen),
                            <<Str("Time"), Str("Observed")>>,
                            KeepAt([j \in DOMAIN tv_data.columns |->
                                       IF j \in chosen
                                       THEN <<status(j).time, status(j).observed>>
                                       ELSE <<>>], chosen)))

-----------------------------------------------------------------------------
(* Specification of the survival transform                                 *)

MaxTimes == 3      \* time points of a table

\* The individuals of a table, in column order.
Individuals == <<Str("A"), Str("B")>>

\* The volumes measured: none, one below, one at and one above the default endpoint.
Volumes == {NaN, Num(0), Num(DefaultEndpoint), Num(750)}

\* The endpoint of the call: left out, or given.
Endpoints == {<<>>, <<750>>}

\* The values passed instead of a series.
Scalars == {1}

\* Tables with individuals in columns, indexed by the days of the fixture.
\* A table of k individuals (columns) over the first n days of the fixture.
VolumeTable(n, k, vals) ==
    DataFrame([r \in 1..n |-> Num(<<1, 4, 8, 11, 15>>[r])],
              SubSeq(Individuals, 1, k), vals)

InitSurvival ==
    /\ pc = "start"
    /\ op = "none"
    /\ \E n \in 0..MaxTimes, k \in 0..Len(Individuals), e \in Endpoints :
          \E vals \in [1..n -> [1..k -> Volumes]] :
              arg = [tv_data |-> VolumeTable(n, k, vals), endpoint |-> e]
    /\ ret = <<>>

\* get_survival_status(tv_data[x], endpoint=...) for a column x of the table
CallGetSurvivalStatus ==
    /\ pc = "start"
    /\ \E j \in DOMAIN arg.tv_data.columns :
          /\ op' = <<"get_survival_status", j>>
          /\ ret' = get_survival_status(Column(arg.tv_data, arg.tv_data.columns[j]),
                                        EndpointOf(arg.endpoint))
    /\ pc' = "done"
    /\ UNCHANGED arg

\* get_survival_status(1): the call of the test with a scalar
CallGetSurvivalStatusOfScalar ==
    /\ pc = "start"
    /\ \E v \in Scalars :
          /\ op' = <<"get_survival_status(scalar)", v>>
          /\ ret' = get_survival_status(Scalar(v), EndpointOf(arg.endpoint))
    /\ pc' = "done"
    /\ UNCHANGED arg

CallVolumeToSurvival ==
    /\ pc = "start"
    /\ pc' = "done"
    /\ op' = <<"volume_to_survival">>
    /\ ret' = volume_to_survival(arg.tv_data, EndpointOf(arg.endpoint))
    /\ UNCHANGED arg

NextSurvival ==
    CallGetSurvivalStatus \/ CallGetSurvivalStatusOfScalar \/ CallVolumeToSurvival

SpecSurvival == InitSurvival /\ [][NextSurvival]_vars

-----------------------------------------------------------------------------
(* Claims about the survival transform                                     *)

StatusDone == pc = "done" /\ op[1] = "get_survival_status"
SurvivalDone == pc = "done" /\ op[1] = "volume_to_survival"

\* The series get_survival_status was called with.
StatusSeries == Column(arg.tv_data, arg.tv_data.columns[op[2]])

\* The positions of the non-missing values of a series.
Present(sr) == {i \in DOMAIN sr.values : sr.values[i] # NaN}

LastPresent(sr) == CHOOSE i \in Present(sr) : \A k \in Present(sr) : k <= i

\* The endpoint that applies to the call: the one given, 700 when none is.
EndpointUsed == IF arg.endpoint = <<>> THEN 700 ELSE arg.endpoint[1]

C7_OneRecordPerMeasuredColumn ==
    SurvivalDone =>
        LET measured == {j \in DOMAIN arg.tv_data.columns :
                            Present(Column(arg.tv_data, arg.tv_data.columns[j])) # {}}
        IN
        /\ ~IsRaised(ret)
        /\ ret.value.index = KeepAt(arg.tv_data.columns, measured)
        /\ Len(ret.value.values) = Cardinality(measured)

\* C8: Observed is True exactly when a measured volume of the individual
\* reached the endpoint at some time point before it left observation, also when
\* a later measurement is below the endpoint again.
C8_ObservedIffEndpointEverReached ==
    (StatusDone /\ ~IsRaised(ret)) =>
        ret.value.observed =
            (\E i \in Present(StatusSeries) : StatusSeries.values[i][2] >= EndpointUsed)

\* C24: get_survival_status called with a value that is not a series (e.g. the
\* scalar 1) raises AttributeError, and the error reaches the caller
\* unchanged: it is neither swallowed nor converted into a result.
C24_ScalarRaisesAttributeError ==
    (pc = "done" /\ op[1] = "get_survival_status(scalar)") =>
        ret = Raised("AttributeError")

\* get_survival_status(1, endpoint=750) has raised.
C24_Witness ==
    /\ pc = "done"
    /\ op = <<"get_survival_status(scalar)", 1>>
    /\ arg.endpoint = <<750>>
    /\ IsRaised(ret)

\* The position of the first missing value of a series that has one.
FirstMissing(sr) ==
    CHOOSE i \in DOMAIN sr.values :
        sr.values[i] = NaN /\ \A k \in 1..(i - 1) : sr.values[k] # NaN

\* The series has a value, then a missing value, and a value again later.
HasGap(sr) ==
    /\ \E i \in DOMAIN sr.values : sr.values[i] = NaN
    /\ FirstMissing(sr) > 1
    /\ \E k \in DOMAIN sr.values : k > FirstMissing(sr) /\ sr.values[k] # NaN

\* C27: an individual is removed from study at its first missing time point:
\* for a column that has a missing value followed by later non-missing values,
\* the Time that get_survival_status returns, and that volume_to_survival (and
\* so make_km) records for the individual, is the last time point before the
\* first missing value.
C27_RemovedAtFirstMissing ==
    /\ (StatusDone /\ HasGap(StatusSeries)) =>
           /\ ~IsRaised(ret)
           /\ ret.value.time = StatusSeries.index[FirstMissing(StatusSeries) - 1]
    /\ (SurvivalDone /\ ~IsRaised(ret)) =>
           \A r \in DOMAIN ret.value.index :
               LET sr == Column(arg.tv_data, ret.value.index[r]) IN
               HasGap(sr) => ret.value.values[r][1] = sr.index[FirstMissing(sr) - 1]

-----------------------------------------------------------------------------
(* plot.py: TumourVolumePlot.add_mean, _calc_t_ci, _calc_norm_ci,          *)
(* add_interval                                                            *)
(*                                                                         *)
(* Floating point values are kept in tenths, rounded down.                 *)

DefaultThreshold == 2
DefaultCi == 95          \* ci=0.95, in percent

\* The non-missing values of row r of the table (the numbers themselves).
RowData(tv_table, r) ==
    LET row == tv_table.values[r]
        kept == KeepAt(row, {j \in DOMAIN row : ~IsNull(row[j])})
    IN [j \in DOMAIN kept |-> kept[j][2]]

\* A filter that also keeps the rows with exactly threshold values (not the
\* code's).
AboveThresholdInclusive(tv_table, threshold) ==
    TakeRows(tv_table, {r \in DOMAIN tv_table.index :
                            Len(RowData(tv_table, r)) >= threshold})

\* tv_table[tv_table.count(axis=1) > threshold]
AboveThreshold(tv_table, threshold) ==
    TakeRows(tv_table, {r \in DOMAIN tv_table.index :
                            Len(RowData(tv_table, r)) > threshold})

\* The mean of the values, NaN when there is none.
Mean(data) ==
    IF data = <<>> THEN NaN ELSE Num((10 * SumSeq(data)) \div Len(data))

\* The largest r with r * r <= x (Newton's iteration from above).
RECURSIVE SqrtIter(_, _)
SqrtIter(x, g) ==
    LET h == (g + x \div g) \div 2 IN IF h >= g THEN g ELSE SqrtIter(x, h)

ISqrt(x) == IF x = 0 THEN 0 ELSE SqrtIter(x, x)

\* np.std(data, ddof=1) / np.sqrt(len(data)), tv_table.sem(axis=1): the standard
\* error of the mean, NaN for fewer than two values.
StdErr(data) ==
    LET n == Len(data)
        sq == SumSeq([i \in DOMAIN data |-> data[i] * data[i]])
        dev == n * sq - SumSeq(data) * SumSeq(data)
    IN IF n < 2 THEN NaN
       ELSE IF dev = 0 THEN Num(0)
       ELSE Num(ISqrt((100 * dev) \div (n * n * (n - 1))))

\* scipy.stats.t.ppf((1 + ci) / 2, df), in thousandths.
TQuantile(ci, df) ==
    CASE ci = 95 -> (CASE df = 1 -> 12706 [] df = 2 -> 4303 [] df = 3 -> 3182
                       [] OTHER -> 2776)
      [] OTHER   -> (CASE df = 1 -> 1000 [] df = 2 -> 816 [] df = 3 -> 765
                       [] OTHER -> 741)

\* scipy.stats.norm.ppf((1 + ci) / 2), in thousandths.
NormQuantile(ci) == IF ci = 95 THEN 1960 ELSE 674

\* loc -/+ q * scale; scipy gives (nan, nan) unless loc is a number and
\* scale > 0.
Interval(q, loc, scale) ==
    IF IsNull(loc) \/ IsNull(scale) THEN <<NaN, NaN>>
    ELSE IF scale[2] <= 0 THEN <<NaN, NaN>>
    ELSE <<Num(loc[2] - (q * scale[2]) \div 1000), Num(loc[2] + (q * scale[2]) \div 1000)>>

\* scipy.stats.t.interval(ci, df=df, loc=loc, scale=scale); nan for df <= 0.
TInterval(ci, df, loc, scale) ==
    IF df <= 0 THEN <<NaN, NaN>> ELSE Interval(TQuantile(ci, df), loc, scale)

\* A lower bound passed on as computed (not the code's).
Max0Unclamped(x) == x

\* max(0, x): 0 also for nan (nan > 0 is False).
Max0(x) == IF IsNull(x) THEN Num(0) ELSE IF x[2] > 0 THEN x ELSE Num(0)

CiColumns == <<Str("mean"), Str("lower bound"), Str("upper bound")>>

\* DataFrame.dropna(): the rows without a missing cell (d is the frame df,
\* evaluated once).
DropNaRows(df) ==
    LET Complete(d) ==
            TakeRows(d, {i \in DOMAIN d.index : \A j \in DOMAIN d.values[i] :
                                                    ~IsNull(d.values[i][j])})
    IN CHOOSE kept \in {Complete(d) : d \in {df}} : TRUE

\* cis.index = tv_table.index[:len(cis.index)]
Relabel(cis, tv_table) ==
    SubSeq(tv_table.index, 1, Len(cis.index))

\* _calc_t_ci: the frame of the lists is indexed 1, 2, ... (a RangeIndex), loses
\* its rows with a NaN, and is then relabelled.  The interval is taken at 0.95
\* whatever ci is.
calc_t_ci(tv_table, ci) ==
    LET record(r) ==
            LET data == RowData(tv_table, r)
                mean == Mean(data)
                lu == TInterval(95, Len(data) - 1, mean, StdErr(data))
            IN <<mean, Max0(lu[1]), lu[2]>>
        cis == DropNaRows(DataFrame([r \in DOMAIN tv_table.index |-> r], CiColumns,
                                    [r \in DOMAIN tv_table.index |-> record(r)]))
    IN DataFrame(Relabel(cis, tv_table), cis.columns, cis.values)

\* _calc_norm_ci: the frame takes the index of tv_table.mean(axis=1).
calc_norm_ci(tv_table, ci) ==
    LET record(r) ==
            LET data == RowData(tv_table, r)
                mean == Mean(data)
                lu == Interval(NormQuantile(ci), mean, StdErr(data))
            IN <<mean, Max0(lu[1]), lu[2]>>
    IN DropNaRows(DataFrame(tv_table.index, CiColumns,
                            [r \in DOMAIN tv_table.index |-> record(r)]))

\* add_mean: the line drawn, x the time points and y the means.
add_mean(tv_table, threshold) ==
    LET kept == AboveThreshold(tv_table, threshold)
    IN [x |-> kept.index,
        y |-> [r \in DOMAIN kept.index |-> Mean(RowData(kept, r))]]

\* add_interval: the band drawn, x the time points ([int(x) for x in cis.index]).
add_interval(tv_table, threshold, ci) ==
    LET cis == calc_t_ci(AboveThreshold(tv_table, threshold), ci)
    IN [x |-> [k \in DOMAIN cis.index |-> cis.index[k][2]],
        lower |-> [k \in DOMAIN cis.index |-> cis.values[k][2]],
        upper |-> [k \in DOMAIN cis.index |-> cis.values[k][3]]]

-----------------------------------------------------------------------------
(* Specification of the interval estimator                                 *)

MaxPoints == 2     \* time points of a table

\* The individuals of a group, in column order.
Group == <<Str("A"), Str("B"), Str("C")>>

\* The volumes measured (none, nothing left, 100).
GroupVolumes == {NaN, Num(0), Num(100)}

\* The confidence levels asked for, in percent.
Levels == {DefaultCi, 50}

InitInterval ==
    /\ pc = "start"
    /\ op = "none"
    /\ \E n \in 0..MaxPoints, threshold \in 0..DefaultThreshold, ci \in Levels :
          \E vals \in [1..n -> [DOMAIN Group -> GroupVolumes]] :
              arg = [tv_table |-> DataFrame([r \in 1..n |-> Num(<<1, 4, 8, 11, 15>>[r])],
                                            Group, vals),
                     threshold |-> threshold, ci |-> ci]
    /\ ret = <<>>

CallAddMean ==
    /\ pc = "start"
    /\ pc' = "done"
    /\ op' = "add_mean"
    /\ ret' = add_mean(arg.tv_table, arg.threshold)
    /\ UNCHANGED arg

CallAddInterval ==
    /\ pc = "start"
    /\ pc' = "done"
    /\ op' = "add_interval"
    /\ ret' = add_interval(arg.tv_table, arg.threshold, arg.ci)
    /\ UNCHANGED arg

CallCalcTCi ==
    /\ pc = "start"
    /\ pc' = "done"
    /\ op' = "_calc_t_ci"
    /\ ret' = calc_t_ci(arg.tv_table, arg.ci)
    /\ UNCHANGED arg

CallCalcNormCi ==
    /\ pc = "start"
    /\ pc' = "done"
    /\ op' = "_calc_norm_ci"
    /\ ret' = calc_norm_ci(arg.tv_table, arg.ci)
    /\ UNCHANGED arg

NextInterval == CallAddMean \/ CallAddInterval \/ CallCalcTCi \/ CallCalcNormCi

SpecInterval == InitInterval /\ [][NextInterval]_vars

-----------------------------------------------------------------------------
(* Claims about the interval estimator                                     *)

\* The time points of the table with at least threshold + 1 non-missing
\* observations, in table order.
PointsWithEnough(tv_table, threshold) ==
    KeepAt(tv_table.index,
           {r \in DOMAIN tv_table.index :
               Cardinality({j \in DOMAIN tv_table.values[r] :
                               tv_table.values[r][j] # NaN}) >= threshold + 1})

\* C9: add_interval and add_mean keep exactly the time points that have at
\* least threshold+1 non-missing observations; every other time point is absent
\* from the result.
C9_KeepsPointsAboveThreshold ==
    /\ (pc = "done" /\ op = "add_mean") =>
           ret.x = PointsWithEnough(arg.tv_table, arg.threshold)
    /\ (pc = "done" /\ op = "add_interval") =>
           [k \in DOMAIN ret.x |-> Num(ret.x[k])]
               = PointsWithEnough(arg.tv_table, arg.threshold)

\* Row r of the table has a mean and an interval: two or more non-missing
\* values that are not all the same.
HasInterval(tv_table, r) ==
    \E i, j \in DOMAIN tv_table.values[r] :
        /\ tv_table.values[r][i] # NaN
        /\ tv_table.values[r][j] # NaN
        /\ tv_table.values[r][i] # tv_table.values[r][j]

\* C10: in the result of _calc_t_ci and _calc_norm_ci every retained record
\* carries the time index of the table row it was computed from, and the rows
\* with a NaN component are dropped, also when a dropped row precedes a
\* retained one.
C10_RecordsKeepTheirTimeIndex ==
    (pc = "done" /\ op \in {"_calc_t_ci", "_calc_norm_ci"}) =>
        LET retained == {r \in DOMAIN arg.tv_table.index : HasInterval(arg.tv_table, r)}
            rows == KeepAt([r \in DOMAIN arg.tv_table.index |-> r], retained)
        IN
        /\ ret.index = KeepAt(arg.tv_table.index, retained)
        /\ \A k \in DOMAIN ret.index :
               /\ \A j \in DOMAIN ret.values[k] : ret.values[k][j] # NaN
               /\ ret.values[k][1] = Mean(RowData(arg.tv_table, rows[k]))

\* The rows of the table that have an interval, in table order: the k-th
\* retained record is computed from the k-th of them.
RowsWithInterval(tv_table) ==
    KeepAt([r \in DOMAIN tv_table.index |-> r],
           {r \in DOMAIN tv_table.index : HasInterval(tv_table, r)})

\* The upper bound of the interval of the data whose quantile is q: the mean
\* plus q standard errors.
UpperAt(q, data) == Num(Mean(data)[2] + (q * StdErr(data)[2]) \div 1000)

\* C11: both interval estimators compute the interval at the confidence level
\* ci passed by the caller: the upper bound of every record of _calc_t_ci, and
\* of the band of add_interval, is the mean plus the Student-t quantile of ci
\* times the standard error, and that of _calc_norm_ci the mean plus the normal
\* quantile of ci times the standard error.
C11_IntervalAtRequestedLevel ==
    /\ (pc = "done" /\ op = "_calc_t_ci") =>
           LET rows == RowsWithInterval(arg.tv_table) IN
           \A k \in DOMAIN ret.index :
               LET data == RowData(arg.tv_table, rows[k])
               IN ret.values[k][3] = UpperAt(TQuantile(arg.ci, Len(data) - 1), data)
    /\ (pc = "done" /\ op = "_calc_norm_ci") =>
           LET rows == RowsWithInterval(arg.tv_table) IN
           \A k \in DOMAIN ret.index :
               LET data == RowData(arg.tv_table, rows[k])
               IN ret.values[k][3] = UpperAt(NormQuantile(arg.ci), data)
    /\ (pc = "done" /\ op = "add_interval") =>
           LET kept == AboveThreshold(arg.tv_table, arg.threshold)
               rows == RowsWithInterval(kept)
           IN \A k \in DOMAIN ret.upper :
               LET data == RowData(kept, rows[k])
               IN ret.upper[k] = UpperAt(TQuantile(arg.ci, Len(data) - 1), data)


\* The lower bound before the clamp of a record <<mean, lower, upper>>: as far
\* below the mean as the upper bound is above it.
ComputedLower(record) == 2 * record[1][2] - record[3][2]

\* C12: every record of _calc_t_ci and _calc_norm_ci has a lower bound of at
\* least 0: a computed lower bound below zero is replaced by 0, any other is
\* kept, and the mean and the upper bound are left as computed (the mean of the
\* row's observations, and an upper bound above it).
C12_LowerBoundClampedAtZero ==
    (pc = "done" /\ op \in {"_calc_t_ci", "_calc_norm_ci"}) =>
        LET rows == RowsWithInterval(arg.tv_table) IN
        \A k \in DOMAIN ret.index :
            LET record == ret.values[k] IN
            /\ record[2][2] >= 0
            /\ ComputedLower(record) < 0 => record[2] = Num(0)
            /\ ComputedLower(record) >= 0 => record[2] = Num(ComputedLower(record))
            /\ record[1] = Mean(RowData(arg.tv_table, rows[k]))
            /\ record[3][2] > record[1][2]

\* _calc_norm_ci has returned a record whose lower bound was positive and kept
\* and a record whose lower bound was below zero and clamped.
C12_Witness ==
    /\ pc = "done"
    /\ op = "_calc_norm_ci"
    /\ \E k \in DOMAIN ret.index :
           ret.values[k][2][2] > 0 /\ ComputedLower(ret.values[k]) > 0
    /\ \E k \in DOMAIN ret.index :
           ret.values[k][2] = Num(0) /\ ComputedLower(ret.values[k]) < 0


\* Every time point of the table has fewer than threshold + 1 non-missing
\* values.
NoPointHasEnough(tv_table, threshold) ==
    \A r \in DOMAIN tv_table.index : Len(RowData(tv_table, r)) < threshold + 1

-----------------------------------------------------------------------------
(* Claims about the errors and the region of the Prism sheet extraction    *)

\* The sheet has its second start marker and its end marker.
MarkersPresent(a) ==
    /\ Len(MarkerLines(a.df, StartMarker)) >= 2
    /\ Len(MarkerLines(a.df, EndMarker)) >= 1

\* Segment i of the region is a table block with an individual, closed by an
\* empty row: its block cleans to a non-empty table.
IsClosedTable(a, i) ==
    /\ IsTableBlock(a, i)
    /\ i < Len(a.region)
    /\ ~Empty(ExpectedTable(SheetTables[a.region[i]]))

\* C14: if cleaning one block fails (for example a block of more than 3 rows
\* with no 'Mean' column), studylog_prism_df_to_tv_tables still processes the
\* sibling blocks: it returns a mapping, and every closed table block of the
\* region is in it under its title.
C14_SiblingsSurviveAFailedBlock ==
    (PrismDone /\ MarkersPresent(arg)) =>
        \A i \in DOMAIN arg.region :
            IsClosedTable(arg, i) =>
                /\ ~IsRaised(ret)
                /\ Str(SheetTables[arg.region[i]].title) \in DOMAIN ret.value


-----------------------------------------------------------------------------
(* Claims about the failures of clean_tv_table                             *)

\* The original statement of C15: clean_tv_table fails with a
\* MalformedTableError when the block has no 'Day' column or no 'Mean' column.
C15_FailsWithMalformedTableError ==
    (CleanDone /\ ~WellFormed(arg)) => ret = Raised("MalformedTableError")

\* C15: clean_tv_table fails with a KeyError when the block has no 'Day'
\* column or no 'Mean' column; in neither case does it return a table.
C15_FailsWithKeyError ==
    (CleanDone /\ ~WellFormed(arg)) => ret = Raised("KeyError")

\* clean_tv_table has failed on a block of MaxDays days and MaxIndividuals
\* individuals that has its 'Day' column but no 'Mean' column.
C15_Witness ==
    /\ CleanDone
    /\ arg.day_label = "Day"
    /\ ~arg.summary
    /\ Len(arg.days) = MaxDays
    /\ Len(arg.present) = MaxIndividuals
    /\ IsRaised(ret)

-----------------------------------------------------------------------------
(* Claims about the blocks the Prism sheet extraction skips                *)

\* The blocks the splitter returns for the region between the markers.
RegionBlocks(a) ==
    split_on_nans(PosSlice(a.df, MarkerLines(a.df, StartMarker)[2] + 1,
                           MarkerLines(a.df, EndMarker)[1]))

\* C16: studylog_prism_df_to_tv_tables never passes a block of 3 or fewer rows
\* to clean_tv_table and never puts an empty table in its result; such blocks
\* are skipped silently, without raising: when every block of more than 3 rows
\* cleans without error the call returns a mapping, whatever cleaning the
\* shorter blocks would do, and no table of a returned mapping is empty.
C16_ShortAndEmptyBlocksSkipped ==
    (PrismDone /\ MarkersPresent(arg)) =>
        /\ (\A b \in Range(RegionBlocks(arg)) :
                Len(b.index) > 3 => ~IsRaised(clean_tv_table(b)))
           => ~IsRaised(ret)
        /\ ~IsRaised(ret) => \A n \in DOMAIN ret.value : ~Empty(ret.value[n])

\* A mapping was returned for a region with a block of 3 or fewer rows whose
\* cleaning would fail and a block of more than 3 rows that cleans to an empty
\* table.
C16_Witness ==
    /\ PrismDone
    /\ MarkersPresent(arg)
    /\ ~IsRaised(ret)
    /\ \E b \in Range(RegionBlocks(arg)) :
           Len(b.index) <= 3 /\ IsRaised(clean_tv_table(b))
    /\ \E b \in Range(RegionBlocks(arg)) :
           /\ Len(b.index) > 3
           /\ ~IsRaised(clean_tv_table(b))
           /\ Empty(clean_tv_table(b).value.table)

-----------------------------------------------------------------------------
(* Claims about the region the Prism sheet extraction reads                *)

\* The sheet that holds nothing but the two start markers, the region and the
\* end marker.
BareSheet(a) == Sheet(<<"start", "start">> \o a.region \o <<"end">>)

\* The titles of the tables among the segments.
TitlesOf(segments) ==
    {SheetTables[k].title : k \in Range(segments) \cap DOMAIN SheetTables}

\* C17: studylog_prism_df_to_tv_tables gives the splitter exactly the rows
\* strictly after the second 'Tumor Volume (All Animals)' row and strictly
\* before the first 'Scatterplot information for Prism' row: the outcome is
\* that of the sheet holding only these rows between its markers, and a table
\* placed before the second start marker or after the end marker never appears
\* in the result.
C17_OnlyTheRegionIsRead ==
    (PrismDone /\ MarkersPresent(arg)) =>
        /\ ret = studylog_prism_df_to_tv_tables(BareSheet(arg))
        /\ ~IsRaised(ret) =>
               \A title \in TitlesOf(arg.before \o arg.after) \ TitlesOf(arg.region) :
                   Str(title) \notin DOMAIN ret.value

\* A mapping with a table of the region was returned for a sheet with another
\* table between the two start markers.
C17_Witness ==
    /\ PrismDone
    /\ MarkersPresent(arg)
    /\ "vehicle2" \in Range(arg.before)
    /\ ~IsRaised(ret)
    /\ DOMAIN ret.value = {Str("Treat")}

-----------------------------------------------------------------------------
(* Claims about the time index of a Cleaned Table                          *)

\* C18: every Cleaned Table returned by clean_tv_table has pairwise distinct
\* time-index values, including when the source block lists the same day in two
\* rows.
C18_TimeIndexIsUnique ==
    (CleanDone /\ ~IsRaised(ret)) =>
        \A r, q \in DOMAIN ret.value.table.index :
            ret.value.table.index[r] = ret.value.table.index[q] => r = q


-----------------------------------------------------------------------------
(* parse.py: clean_studylog_absolute_tv, studylog_absolute_df_to_tv_tables *)

GroupLabel == Str("Group")
AnimalIdLabel == Str("Animal ID")
DataTypeLabel == Str("Study Days Data Type")

\* The group names in ascending (string) order.
GroupNames == <<"DPBS", "Mock">>

\* The place of the group cell g in the ascending order of the group names.
GroupRank(g) == CHOOSE k \in DOMAIN GroupNames : Str(GroupNames[k]) = g

\* DataFrame.T
Transpose(df) ==
    DataFrame(df.columns, df.index,
              [j \in DOMAIN df.columns |-> [i \in DOMAIN df.index |-> df.values[i][j]]])

\* clean_studylog_absolute_tv: the all-null columns and rows go, the index
\* becomes the 'Animal ID' column (KeyError without it), and the transposed
\* frame loses its first three rows (.T[3:]).
clean_studylog_absolute_tv(absolute_tv_df) ==
    LET t1 == DropNullRows(DropNullCols(absolute_tv_df))
        id == ColsLabelled(t1, AnimalIdLabel)
    IN IF id = {} THEN Raised("KeyError")
       ELSE LET t2 == DataFrame(ColumnAt(t1, CHOOSE j \in id : TRUE), t1.columns, t1.values)
                t3 == Transpose(t2)
            IN Returned(TakeRows(t3, 4..Len(t3.index)))

\* The orders sort_values(by=['Group']) may leave the rows in: the positions of
\* the rows in ascending order of their group, rows of one group in any order
\* (the default sort is not stable).
SortOrders(df) ==
    LET n == Len(df.index)
        g == ColumnAt(df, CHOOSE j \in ColsLabelled(df, GroupLabel) : TRUE)
    IN {order \in [1..n -> 1..n] :
           /\ \A i, j \in 1..n : order[i] = order[j] => i = j
           /\ \A i, j \in 1..n : i < j => GroupRank(g[order[i]]) <= GroupRank(g[order[j]])}

\* absolute_df after sort_values(by=['Group'], inplace=True) and
\* set_index(keys=['Group'], drop=False, inplace=True).
SortedByGroup(df, order) ==
    LET g == ColumnAt(df, CHOOSE j \in ColsLabelled(df, GroupLabel) : TRUE)
    IN DataFrame([i \in DOMAIN order |-> g[order[i]]], df.columns,
                 [i \in DOMAIN order |-> df.values[order[i]]])

\* A selection that takes the rows of every group (not the code's).
RowsOfAnyGroup(df, key) == df

\* absolute_df[:][absolute_df.Group == key]
RowsOfGroup(df, key) ==
    LET c == CHOOSE j \in ColsLabelled(df, GroupLabel) : TRUE
    IN TakeRows(df, {i \in DOMAIN df.index : df.values[i][c] = key})

\* studylog_absolute_df_to_tv_tables on the frame already sorted and indexed:
\* one cleaned table per group value.
studylog_absolute_df_to_tv_tables(sorted) ==
    LET groups == Range(ColumnAt(sorted, CHOOSE j \in ColsLabelled(sorted, GroupLabel) : TRUE))
        tv_tables == [key \in groups |-> clean_studylog_absolute_tv(RowsOfGroup(sorted, key))]
    IN IF \E key \in groups : IsRaised(tv_tables[key]) THEN Raised("KeyError")
       ELSE Returned([key \in groups |-> tv_tables[key].value])

-----------------------------------------------------------------------------
(* Specification of the long-row ("absolute") extraction                   *)

MaxAnimals == 3     \* rows (animals) of the sheet

\* The Animal IDs of the rows, top to bottom.
AnimalIds == <<"9981", "9982", "ABCD", "9986 (T3)", "9991">>

\* The day columns of the sheet.
StudyDays == <<1, 5>>

\* The volume of animal i on the d-th study day, when it was measured.
Volume(i, d) == Num(10 * i + d)

\* The sheet read with header=5: one row per animal with its group, its ID, the
\* data type and its volumes; rows labelled 0, 1, ...
AbsoluteSheet(group, typed, measured) ==
    DataFrame([i \in DOMAIN group |-> i - 1],
              <<GroupLabel, AnimalIdLabel, DataTypeLabel>>
                  \o [d \in DOMAIN StudyDays |-> Num(StudyDays[d])],
              [i \in DOMAIN group |->
                  <<Str(group[i]), Str(AnimalIds[i]),
                    IF group[i] \in typed THEN Str("Abs") ELSE NaN>>
                  \o [d \in DOMAIN StudyDays |->
                        IF d \in measured[i] THEN Volume(i, d) ELSE NaN]])

\* A sheet of up to MaxAnimals animals in any order of their groups; the data
\* type is filled in for the groups of `typed`; an animal has volumes on the
\* days of `measured`.  original is the sheet as the caller built it.
InitAbsolute ==
    /\ pc = "start"
    /\ op = "none"
    /\ \E n \in 0..MaxAnimals, typed \in SUBSET Range(GroupNames) :
          \E group \in [1..n -> Range(GroupNames)],
             measured \in [1..n -> SUBSET DOMAIN StudyDays] :
              arg = [absolute_df |-> AbsoluteSheet(group, typed, measured),
                     original |-> AbsoluteSheet(group, typed, measured)]
    /\ ret = <<>>

\* The call sorts and re-indexes the caller's frame in place.
CallStudylogAbsolute ==
    /\ pc = "start"
    /\ pc' = "done"
    /\ op' = "studylog_absolute_df_to_tv_tables"
    /\ \E order \in SortOrders(arg.absolute_df) :
          /\ arg' = [arg EXCEPT !.absolute_df = SortedByGroup(arg.absolute_df, order)]
          /\ ret' = studylog_absolute_df_to_tv_tables(SortedByGroup(arg.absolute_df, order))

NextAbsolute == CallStudylogAbsolute

SpecAbsolute == InitAbsolute /\ [][NextAbsolute]_vars

-----------------------------------------------------------------------------
(* Claims about studylog_absolute_df_to_tv_tables                          *)

AbsoluteDone == pc = "done" /\ op = "studylog_absolute_df_to_tv_tables"

\* The rows (animals) of the sheet whose Group is g.
Members(sheet, g) == {i \in DOMAIN sheet.index : sheet.values[i][1] = g}

\* The cell of animal i of the sheet in the column labelled label.
CellOf(sheet, i, label) ==
    sheet.values[i][CHOOSE j \in DOMAIN sheet.columns : sheet.columns[j] = label]

DayColumns == {Num(StudyDays[d]) : d \in DOMAIN StudyDays}

\* C19: for every group value g of the input, whether or not the input rows
\* are pre-sorted by group, studylog_absolute_df_to_tv_tables maps g to a table
\* whose columns are exactly the Animal IDs of the rows with Group g (no
\* individual of another group), whose rows are day columns, and whose cell
\* (day, animal) equals the input measurement of that animal on that day; when
\* the group has its data type filled in, every measurement of the group is in
\* the table.
C19_GroupTablesHoldTheMeasurements ==
    AbsoluteDone =>
        /\ ~IsRaised(ret)
        /\ DOMAIN ret.value = {arg.original.values[i][1] : i \in DOMAIN arg.original.index}
        /\ \A g \in DOMAIN ret.value :
               LET t == ret.value[g]
                   members == Members(arg.original, g)
               IN
               /\ Range(t.columns) = {arg.original.values[i][2] : i \in members}
               /\ Len(t.columns) = Cardinality(members)
               /\ Range(t.index) \subseteq DayColumns
               /\ \A r \in DOMAIN t.index, c \in DOMAIN t.columns :
                      \E i \in members :
                          /\ arg.original.values[i][2] = t.columns[c]
                          /\ t.values[r][c] = CellOf(arg.original, i, t.index[r])
               /\ (\E i \in members : arg.original.values[i][3] # NaN) =>
                      \A i \in members, day \in DayColumns :
                          CellOf(arg.original, i, day) # NaN => day \in Range(t.index)

\* Two tables were returned for a sheet of MaxAnimals animals that lists a
\* 'Mock' animal above a 'DPBS' animal, every animal measured on some day.
C19_Witness ==
    /\ AbsoluteDone
    /\ ~IsRaised(ret)
    /\ Len(arg.original.index) = MaxAnimals
    /\ \E i, j \in DOMAIN arg.original.index :
           /\ i < j
           /\ arg.original.values[i][1] = Str("Mock")
           /\ arg.original.values[j][1] = Str("DPBS")
    /\ \A g \in DOMAIN ret.value : Len(ret.value[g].index) = Len(StudyDays)
    /\ \E g \in DOMAIN ret.value : Len(ret.value[g].columns) > 1

\* C30: the three rows removed after transposition are always the Group,
\* Animal ID and data-type rows: every day column that has at least one
\* non-null measurement in the group is a row of the returned table, including
\* when the data-type column is entirely null for that group.
C30_MeasuredDaysAreRows ==
    (AbsoluteDone /\ ~IsRaised(ret)) =>
        \A g \in DOMAIN ret.value :
            /\ Range(ret.value[g].index) \subseteq DayColumns
            /\ \A day \in DayColumns :
                   (\E i \in Members(arg.original, g) :
                        CellOf(arg.original, i, day) # NaN)
                       => day \in Range(ret.value[g].index)


-----------------------------------------------------------------------------
(* parse.py: fixed_length_alternate_steps                                  *)

\* A step that starts with step2 (not the code's).
StepSwapped(x, second_step, step1, step2) ==
    IF second_step THEN x + step1 ELSE x + step2

\* if second_step: x += step2  else: x += step1
Step(x, second_step, step1, step2) ==
    IF second_step THEN x + step2 ELSE x + step1

\* while len(result) < length: step, append, flip second_step.
RECURSIVE StepsLoop(_, _, _, _, _, _)
StepsLoop(result, x, second_step, length, step1, step2) ==
    IF Len(result) < length
    THEN LET y == Step(x, second_step, step1, step2)
         IN StepsLoop(Append(result, y), y, ~second_step, length, step1, step2)
    ELSE result

\* The list starts as [start] before the loop tests the length.
fixed_length_alternate_steps(start, length, step1, step2) ==
    StepsLoop(<<start>>, start, FALSE, length, step1, step2)

-----------------------------------------------------------------------------
(* Specification of the day schedule                                       *)

MaxLength == 4     \* length asked for

StepStarts == {-7, 0, 1, 7}
StepSizes == -1..4

\* The calls of test_fixed_length_alternate_steps.
StepExamples ==
    { [start |-> 1, length |-> 12, step1 |-> 3, step2 |-> 4],
      [start |-> 7, length |-> 2, step1 |-> 3, step2 |-> 4],
      [start |-> 1, length |-> 10, step1 |-> 2, step2 |-> -1],
      [start |-> -7, length |-> 12, step1 |-> 1, step2 |-> 7] }

InitSteps ==
    /\ pc = "start"
    /\ op = "none"
    /\ \/ arg \in StepExamples
       \/ \E start \in StepStarts, length \in 0..MaxLength,
             step1 \in StepSizes, step2 \in StepSizes :
              arg = [start |-> start, length |-> length, step1 |-> step1, step2 |-> step2]
    /\ ret = <<>>

CallFixedLengthAlternateSteps ==
    /\ pc = "start"
    /\ pc' = "done"
    /\ op' = "fixed_length_alternate_steps"
    /\ ret' = fixed_length_alternate_steps(arg.start, arg.length, arg.step1, arg.step2)
    /\ UNCHANGED arg

NextSteps == CallFixedLengthAlternateSteps

SpecSteps == InitSteps /\ [][NextSteps]_vars

-----------------------------------------------------------------------------
(* Claims about fixed_length_alternate_steps                               *)

StepsDone == pc = "done" /\ op = "fixed_length_alternate_steps"

\* C20: fixed_length_alternate_steps(start, length, s1, s2) returns the list
\* whose first value is start and whose i-th step adds s1 when i is odd and s2
\* when i is even, for any integer start and steps including negative ones (of
\* `length` values for a length of 1 or more): (1,12,3,4) gives
\* [1,4,8,11,15,18,22,25,29,32,36,39], (7,2,3,4) gives [7,10] and (1,10,2,-1)
\* gives [1,3,2,4,3,5,4,6,5,7].
C20_AlternatingSteps ==
    StepsDone =>
        /\ ret[1] = arg.start
        /\ \A i \in 1..(Len(ret) - 1) :
               ret[i + 1] - ret[i] = IF i % 2 = 1 THEN arg.step1 ELSE arg.step2
        /\ arg.length >= 1 => Len(ret) = arg.length
        /\ arg = [start |-> 1, length |-> 12, step1 |-> 3, step2 |-> 4]
               => ret = <<1, 4, 8, 11, 15, 18, 22, 25, 29, 32, 36, 39>>
        /\ arg = [start |-> 7, length |-> 2, step1 |-> 3, step2 |-> 4]
               => ret = <<7, 10>>
        /\ arg = [start |-> 1, length |-> 10, step1 |-> 2, step2 |-> -1]
               => ret = <<1, 3, 2, 4, 3, 5, 4, 6, 5, 7>>

\* The call with a negative second step has returned its ten values.
C20_Witness ==
    /\ StepsDone
    /\ arg = [start |-> 1, length |-> 10, step1 |-> 2, step2 |-> -1]
    /\ ret = <<1, 3, 2, 4, 3, 5, 4, 6, 5, 7>>


\* C21: for every length >= 0, fixed_length_alternate_steps(start, length, s1,
\* s2) returns a list of exactly `length` values (so that standardise_days
\* gets an index as long as the table's current index, an empty table
\* included).
C21_ExactlyLengthValues ==
    StepsDone => Len(ret) = arg.length


-----------------------------------------------------------------------------
(* parse.py: standardise_days                                              *)

\* dataframe.index = fixed_length_alternate_steps(1, len(dataframe.index), ...):
\* the frame with its new index; pandas raises ValueError when the new index
\* has another length than the frame has rows.
standardise_days(dataframe, first_interval, second_interval) ==
    LET days == fixed_length_alternate_steps(1, Len(dataframe.index),
                                             first_interval, second_interval)
    IN IF Len(days) # Len(dataframe.index) THEN Raised("ValueError")
       ELSE Returned(DataFrame([i \in DOMAIN days |-> Num(days[i])],
                               dataframe.columns, dataframe.values))

-----------------------------------------------------------------------------
(* Specification of the renumbering of days                                *)

MaxStudyRows == 3     \* time points of the table

\* The step sizes asked for (the defaults 3 and 4 among them).
Intervals == 1..5

\* The index of the table before the call: the positions 0, 1, ... of
\* test_standardise_days, or the days of a study.
OldIndexes == { <<0, 1, 2, 3, 4>>, <<1, 5, 26, 30, 33>> }

\* A table of n time points and k individuals, whose first `present` time
\* points have volumes.
StudyTable(old, n, k, present) ==
    DataFrame([r \in 1..n |-> Num(old[r])],
              [c \in 1..k |-> Str(IndividualNames[c])],
              [r \in 1..n |-> [c \in 1..k |->
                                  IF r <= present THEN Num(10 * r + c) ELSE NaN]])

\* original is the table as the caller built it, dataframe the object handed to
\* the call.
InitDays ==
    /\ pc = "start"
    /\ op = "none"
    /\ \E old \in OldIndexes, n \in 0..MaxStudyRows, k \in 0..MaxIndividuals,
          first_interval \in Intervals, second_interval \in Intervals :
          \E present \in 0..n :
              arg = [dataframe |-> StudyTable(old, n, k, present),
                     original |-> StudyTable(old, n, k, present),
                     first_interval |-> first_interval,
                     second_interval |-> second_interval]
    /\ ret = <<>>

\* The index is assigned on the caller's object, which is also the one returned.
CallStandardiseDays ==
    /\ pc = "start"
    /\ pc' = "done"
    /\ op' = "standardise_days"
    /\ LET result == standardise_days(arg.dataframe, arg.first_interval,
                                      arg.second_interval)
       IN /\ ret' = result
          /\ arg' = IF IsRaised(result) THEN arg
                    ELSE [arg EXCEPT !.dataframe = result.value]

NextDays == CallStandardiseDays

SpecDays == InitDays /\ [][NextDays]_vars

-----------------------------------------------------------------------------
(* Claims about standardise_days                                           *)

DaysDone == pc = "done" /\ op = "standardise_days"

\* The i-th value of the sequence 1, 1+a, 1+a+b, 1+2a+b, ...
AlternatingDay(i, a, b) == 1 + a * (i \div 2) + b * ((i - 1) \div 2)

\* C22: standardise_days(table, a, b) replaces the time index of the table by
\* the sequence 1, 1+a, 1+a+b, 1+2a+b, ... of the same length as the old index,
\* and leaves the column labels, the row order and every cell value unchanged.
C22_IndexReplacedByAlternatingDays ==
    DaysDone =>
        /\ ~IsRaised(ret)
        /\ ret.value.index =
               [i \in DOMAIN arg.original.index |->
                   Num(AlternatingDay(i, arg.first_interval, arg.second_interval))]
        /\ ret.value.columns = arg.original.columns
        /\ ret.value.values = arg.original.values


\* C23: Cleaned Tables are value objects: an operation that takes a Cleaned
\* Table (here standardise_days) does not change the index, the columns or the
\* values of the table object the caller passed in.
C23_CallerTableUnchanged ==
    DaysDone =>
        /\ arg.dataframe.index = arg.original.index
        /\ arg.dataframe.columns = arg.original.columns
        /\ arg.dataframe.values = arg.original.values


-----------------------------------------------------------------------------
(* Claims about tables of the same name in the Prism sheet                 *)

\* Segments i < j of the region are table blocks of the same title, the one at
\* j has more than 3 rows and an individual, and no later segment is a table
\* of that title.
SameNameTwice(a, i, j) ==
    /\ i < j
    /\ IsTableBlock(a, i)
    /\ IsTableBlock(a, j)
    /\ SheetTables[a.region[i]].title = SheetTables[a.region[j]].title
    /\ 2 + Len(SheetTables[a.region[j]].days) > 3
    /\ ~Empty(ExpectedTable(SheetTables[a.region[j]]))
    /\ \A k \in DOMAIN a.region :
           (k > j /\ a.region[k] \in DOMAIN SheetTables)
               => SheetTables[a.region[k]].title # SheetTables[a.region[j]].title

\* C25: when two table blocks between the markers carry the same group name,
\* the mapping returned by studylog_prism_df_to_tv_tables holds a single entry
\* for that name, whose table is that of the later block in grid order.
C25_LaterBlockWins ==
    (PrismDone /\ ~IsRaised(ret)) =>
        \A i, j \in DOMAIN arg.region :
            SameNameTwice(arg, i, j) =>
                /\ Str(SheetTables[arg.region[j]].title) \in DOMAIN ret.value
                /\ ret.value[Str(SheetTables[arg.region[j]].title)]
                       = ExpectedTable(SheetTables[arg.region[j]])


-----------------------------------------------------------------------------
(* Specification of the wide-block cleaner on blocks with margins          *)

MaxMargin == 2     \* fully-null columns left of the title, fully-null rows above it

\* The block of a group with `left` fully-null columns before the title
\* column, `right` after the Mean column, `above` fully-null rows over the
\* title row and `tail` below the data rows; rows and columns labelled 0, 1, ...
MarginBlock(left, right, above, title, days, present, tail) ==
    LET k == Len(present)
        width == left + k + 2 + right
        pad(row) == [j \in 1..left |-> NaN] \o row
                       \o [j \in 1..(width - left - Len(row)) |-> NaN]
        headerRow == <<Str("Day")>> \o [c \in 1..k |-> Str(IndividualNames[c])]
                       \o <<Str("Mean")>>
        dataRow(r) == <<Num(days[r])>>
                        \o [c \in 1..k |-> Measurement(present, r, c)]
                        \o <<MeanCell(present, r)>>
        rows == [r \in 1..above |-> pad(<<>>)]
                  \o <<pad(<<Str(title)>>), pad(headerRow)>>
                  \o [r \in 1..Len(days) |-> pad(dataRow(r))]
                  \o [r \in 1..tail |-> pad(<<>>)]
    IN DataFrame([i \in 1..Len(rows) |-> i - 1], [j \in 1..width |-> j - 1], rows)

\* A well-formed block with up to MaxMargin empty columns and rows around its
\* cells; reference is the same block with one empty column before the title
\* column and no other margin, as in the sheets of the tests.
InitMargins ==
    /\ pc = "start"
    /\ op = "none"
    /\ \E left \in 0..MaxMargin, right \in 0..1, above \in 0..MaxMargin, tail \in 0..1,
          title \in Titles, n \in 0..MaxDays, k \in 0..MaxIndividuals :
          \E present \in [1..k -> 0..n] :
              arg = [dirty_tv_table |->
                         MarginBlock(left, right, above, title,
                                     SubSeq(<<1, 4, 8, 11, 15>>, 1, n), present, tail),
                     reference |->
                         MarginBlock(1, 0, 0, title,
                                     SubSeq(<<1, 4, 8, 11, 15>>, 1, n), present, 0),
                     left |-> left, right |-> right, above |-> above, tail |-> tail]
    /\ ret = <<>>

NextMargins == CallCleanTvTable

SpecMargins == InitMargins /\ [][NextMargins]_vars

-----------------------------------------------------------------------------
(* Claims about the margins of a block                                     *)

\* C26: clean_tv_table returns the same name and the same Cleaned Table
\* whatever number of fully-null rows and fully-null columns surround the title,
\* header and data cells of the block (e.g. when two empty columns instead of
\* one precede the title column).
C26_MarginsDoNotMatter ==
    CleanDone => ret = clean_tv_table(arg.reference)


-----------------------------------------------------------------------------
(* plot.py: make_km, VolumeSurvivalPlot.add_mean, add_kmf, logrank_test    *)

\* d with the entry d[key] = value (the dict is a function on its keys).
SetItem(d, key, value) ==
    [k \in DOMAIN d \cup {key} |-> IF k = key THEN value ELSE d[k]]

\* The dict without entries.
EmptyDict == [k \in {} |-> 0]

\* The attribute endpoint of a new plot.
None == <<>>

\* make_km: the Kaplan-Meier fitter, known here by its label and the (Time,
\* Observed) table it was fitted to; endpoint notes the endpoint of the call.
make_km(tv_data, label, endpoint) ==
    LET survival == volume_to_survival(tv_data, endpoint)
    IN IF IsRaised(survival) THEN survival
       ELSE Returned([label |-> label, survival |-> survival.value,
                      endpoint |-> endpoint])

\* __init__: the attributes of a VolumeSurvivalPlot the three methods use.
NewVolumeSurvivalPlot ==
    [means |-> EmptyDict, volume_data |-> EmptyDict, kmfs |-> EmptyDict,
     endpoint |-> None]

\* add_kmf: self.kmfs[name] = make_km(...); self.endpoint = endpoint.  The
\* plot after the call and the outcome; nothing is assigned when make_km raises.
add_kmf(self, name, tv_table, endpoint) ==
    LET kmf == make_km(tv_table, name, endpoint)
    IN IF IsRaised(kmf) THEN [self |-> self, outcome |-> kmf]
       ELSE [self |-> [self EXCEPT !.kmfs = SetItem(self.kmfs, name, kmf.value),
                                   !.endpoint = <<endpoint>>],
             outcome |-> Returned(None)]

\* VolumeSurvivalPlot.add_mean: the mean line of the parent class, then
\* self.volume_data[name] = tv_table, then add_kmf.
plot_add_mean(self, name, tv_table, endpoint) ==
    add_kmf([self EXCEPT !.means = SetItem(self.means, name,
                                           add_mean(tv_table, DefaultThreshold)),
                         !.volume_data = SetItem(self.volume_data, name, tv_table)],
            name, tv_table, endpoint)

\* not self.endpoint or not self.volume_data: true for None, for the endpoint 0
\* and for the empty dict.
NothingAdded(self) ==
    \/ self.endpoint = None
    \/ self.endpoint = <<0>>
    \/ DOMAIN self.volume_data = {}

\* logrank_test: ValueError without data, KeyError for a name that is not in
\* volume_data; the result of the test is known here by the two (Time,
\* Observed) tables it is computed from.
plot_logrank_test(self, treatment_a, treatment_b) ==
    IF NothingAdded(self) THEN Raised("ValueError")
    ELSE IF treatment_a \notin DOMAIN self.volume_data THEN Raised("KeyError")
    ELSE LET survival_a == volume_to_survival(self.volume_data[treatment_a],
                                              self.endpoint[1])
         IN
         IF IsRaised(survival_a) THEN survival_a
         ELSE IF treatment_b \notin DOMAIN self.volume_data THEN Raised("KeyError")
         ELSE LET survival_b == volume_to_survival(self.volume_data[treatment_b],
                                                   self.endpoint[1])
              IN IF IsRaised(survival_b) THEN survival_b
                 ELSE Returned([a |-> survival_a.value, b |-> survival_b.value])

-----------------------------------------------------------------------------
(* Specification of the dual plot                                          *)

MaxCalls == 3     \* method calls on one plot

\* The legend labels of the groups.
GroupLabels == {"vehicle", "good_treatment"}

\* The endpoints of the calls: the default, 0, and one above the default.
PlotEndpoints == {<<>>, <<0>>, <<750>>}

\* The tables of the groups: individuals that end at, above and below the
\* default endpoint.
PlotTables ==
    { VolumeTable(2, 2, <<<<Num(0), Num(750)>>, <<Num(DefaultEndpoint), Num(750)>>>>),
      VolumeTable(2, 2, <<<<Num(750), Num(DefaultEndpoint)>>, <<Num(0), NaN>>>>) }

\* A new plot; calls counts the method calls made on it.
InitPlot ==
    /\ pc = "start"
    /\ op = "none"
    /\ arg = [self |-> NewVolumeSurvivalPlot, calls |-> 0]
    /\ ret = <<>>

CallPlotAddMean ==
    /\ arg.calls < MaxCalls
    /\ \E name \in GroupLabels, tv_table \in PlotTables, e \in PlotEndpoints :
          LET after == plot_add_mean(arg.self, name, tv_table, EndpointOf(e)) IN
          /\ op' = <<"add_mean", name, EndpointOf(e)>>
          /\ arg' = [self |-> after.self, calls |-> arg.calls + 1]
          /\ ret' = after.outcome
    /\ pc' = "done"

CallPlotAddKmf ==
    /\ arg.calls < MaxCalls
    /\ \E name \in GroupLabels, tv_table \in PlotTables, e \in PlotEndpoints :
          LET after == add_kmf(arg.self, name, tv_table, EndpointOf(e)) IN
          /\ op' = <<"add_kmf", name, EndpointOf(e)>>
          /\ arg' = [self |-> after.self, calls |-> arg.calls + 1]
          /\ ret' = after.outcome
    /\ pc' = "done"

\* logrank_test assigns no attribute of the plot.
CallPlotLogrankTest ==
    /\ arg.calls < MaxCalls
    /\ \E treatment_a \in GroupLabels, treatment_b \in GroupLabels :
          /\ op' = <<"logrank_test", treatment_a, treatment_b>>
          /\ ret' = plot_logrank_test(arg.self, treatment_a, treatment_b)
    /\ arg' = [arg EXCEPT !.calls = arg.calls + 1]
    /\ pc' = "done"

NextPlot == CallPlotAddMean \/ CallPlotAddKmf \/ CallPlotLogrankTest

SpecPlot == InitPlot /\ [][NextPlot]_vars

-----------------------------------------------------------------------------
(* Claims about VolumeSurvivalPlot.logrank_test                            *)

LogrankDone == pc = "done" /\ op[1] = "logrank_test"

\* C28: on a VolumeSurvivalPlot, logrank_test(a, b) raises ValueError and
\* leaves the plot state unchanged when no group has been added with add_mean,
\* and it returns a test result for any two group names previously added with
\* add_mean, whatever endpoint they were added with (including endpoint 0).
C28_LogrankNeedsOnlyAddedGroups ==
    [][CallPlotLogrankTest =>
          /\ DOMAIN arg.self.volume_data = {} =>
                 ret' = Raised("ValueError") /\ arg'.self = arg.self
          /\ (op'[2] \in DOMAIN arg.self.volume_data
                 /\ op'[3] \in DOMAIN arg.self.volume_data) => ~IsRaised(ret')]_vars


\* C29: after any sequence of add_mean / add_kmf calls, logrank_test derives
\* each group's (time, observed) pairs with the endpoint that was used to fit
\* that group's Kaplan-Meier curve stored in kmfs; a group added later with
\* another endpoint does not change the endpoint applied to an earlier group.
C29_LogrankUsesEndpointOfFit ==
    (LogrankDone /\ ~IsRaised(ret)) =>
        /\ op[2] \in DOMAIN arg.self.kmfs =>
              ret.value.a = volume_to_survival(arg.self.volume_data[op[2]],
                                arg.self.kmfs[op[2]].endpoint).value
        /\ op[3] \in DOMAIN arg.self.kmfs =>
              ret.value.b = volume_to_survival(arg.self.volume_data[op[3]],
                                arg.self.kmfs[op[3]].endpoint).value

====
